---- MODULE Spec2Model ----
(***************************************************************************)
(* Budget-constrained stock allocation of BudgetOptimizedMarketAssistant   *)
(* (src/upgraded_stock_market_bot.py.py): get_budget_optimized_stocks,     *)
(* optimize_portfolio and the budget branch of process_query.              *)
(*                                                                         *)
(* Prices, potentials and budgets are Python floats.  A float is modelled  *)
(* as a record [m, e] standing for m * 2^e, with a mantissa of MantBits    *)
(* bits and round-to-nearest, ties-to-even, as IEEE-754 binary64 does with *)
(* 53 bits.  Lists hold references: a list of records is modelled as a     *)
(* sequence of indices into the input list `stocks`.                       *)
(***************************************************************************)
EXTENDS Integers, Sequences, FiniteSets, TLC

(* ------------------------------ bounds --------------------------------- *)

\* Largest number of records in the asset universe.
MaxAssets == 2

\* Bits of the float mantissa (binary64 has 53).
MantBits == 9

(* --------------------------- float arithmetic -------------------------- *)

RECURSIVE Pow2(_)
Pow2(n) == IF n <= 0 THEN 1 ELSE 2 * Pow2(n - 1)

MantLo == Pow2(MantBits - 1)
MantHi == Pow2(MantBits)

FZero == [m |-> 0, e |-> 0]

Abs(k) == IF k < 0 THEN -k ELSE k

\* q = n/d rounded to the nearest integer, a tie going to the even one.
RoundHalfEven(n, d) ==
    LET q == n \div d
        r == n % d
    IN  IF 2 * r < d THEN q
        ELSE IF 2 * r > d THEN q + 1
        ELSE IF q % 2 = 0 THEN q ELSE q + 1

\* The float nearest to (n/d) * 2^e, for n >= 0 and d > 0.
RECURSIVE RoundRat(_, _, _)
RoundRat(n, d, e) ==
    IF n = 0 THEN FZero
    ELSE IF n < MantLo * d THEN RoundRat(2 * n, d, e - 1)
    ELSE IF n >= MantHi * d THEN RoundRat(n, 2 * d, e + 1)
    ELSE LET q == RoundHalfEven(n, d)
         IN  IF q = MantHi THEN [m |-> MantLo, e |-> e + 1]
             ELSE [m |-> q, e |-> e]

FNeg(x) == [m |-> -x.m, e |-> x.e]

FSigned(neg, x) == IF neg THEN FNeg(x) ELSE x

\* float(k) for an integer k.
FromInt(k) == FSigned(k < 0, RoundRat(Abs(k), 1, 0))

\* x * y
FMul(x, y) ==
    FSigned((x.m < 0) # (y.m < 0), RoundRat(Abs(x.m) * Abs(y.m), 1, x.e + y.e))

\* x / y, for y # 0
FDiv(x, y) ==
    FSigned((x.m < 0) # (y.m < 0), RoundRat(Abs(x.m), Abs(y.m), x.e - y.e))

\* x < y on the values the floats stand for.
FLess(x, y) ==
    IF x.m < 0 /\ y.m < 0 THEN
        \/ x.e > y.e
        \/ x.e = y.e /\ x.m < y.m
    ELSE IF x.m < 0 \/ y.m < 0 THEN x.m < y.m
    ELSE IF x.m = 0 \/ y.m = 0 THEN x.m < y.m
    ELSE \/ x.e < y.e
         \/ x.e = y.e /\ x.m < y.m

FLeq(x, y) == ~FLess(y, x)

\* Largest difference of exponents for which x - y is computed exactly
\* before rounding; beyond it the smaller operand is below half an ulp.
MaxShift == MantBits + 3

\* x - y
FSub(x, y) ==
    IF y.m = 0 THEN x
    ELSE IF x.m = 0 THEN FNeg(y)
    ELSE IF x.e - y.e > MaxShift THEN x
    ELSE IF y.e - x.e > MaxShift THEN FNeg(y)
    ELSE LET lo == IF x.e < y.e THEN x.e ELSE y.e
             d  == x.m * Pow2(x.e - lo) - y.m * Pow2(y.e - lo)
         IN  FSigned(d < 0, RoundRat(Abs(d), 1, lo))

\* int(x): truncation towards zero.
Trunc(x) ==
    LET a == Abs(x.m)
        t == IF x.e >= 0 THEN a * Pow2(x.e)
             ELSE IF -x.e > MantBits THEN 0
             ELSE a \div Pow2(-x.e)
    IN  IF x.m < 0 THEN -t ELSE t

Hundred == FromInt(100)

(* ------------------------------- inputs -------------------------------- *)

\* A price and a budget on which the quotient budget/price rounds up to a
\* whole number: 3 * RoundPrice - 1 < 3 * RoundPrice, both are floats, and
\* the quotient is within half an ulp of 3.
RoundPrice == MantLo + 1
RoundBudget == 3 * RoundPrice - 1

Symbols == {"A", "B"}
PriceInts == {-1, 0, 50, 100, RoundPrice}
PotentialInts == {-5, 15, 20}
BudgetInts == {0, 40, 120, RoundBudget}

\* The record analyze_stock returns, reduced to the keys the allocator reads.
Analysis ==
    [symbol : Symbols,
     current_price : {FromInt(k) : k \in PriceInts},
     future_potential : {FromInt(k) : k \in PotentialInts}]

\* What analyze_stock returns for a symbol it cannot score (lines 215-216 and
\* 244-246): None.  It stands in the universe as a record of the same shape
\* that no Analysis equals; its price and potential are never read.
NoAnalysis == [symbol |-> "None", current_price |-> FZero, future_potential |-> FZero]

Budgets == {FromInt(k) : k \in BudgetInts}

(* ------------------------------- sorting ------------------------------- *)

\* s with x inserted behind every element whose key is not below x's.
RECURSIVE InsertDesc(_, _, _)
InsertDesc(s, x, key) ==
    IF s = <<>> THEN <<x>>
    ELSE IF FLess(key[Head(s)], key[x]) THEN <<x>> \o s
    ELSE <<Head(s)>> \o InsertDesc(Tail(s), x, key)

RECURSIVE SortFrom(_, _, _, _)
SortFrom(s, i, acc, key) ==
    IF i > Len(s) THEN acc
    ELSE SortFrom(s, i + 1, InsertDesc(acc, s[i], key), key)

\* s with x inserted in front of the first element whose key is not above x's.
RECURSIVE InsertDescFront(_, _, _)
InsertDescFront(s, x, key) ==
    IF s = <<>> THEN <<x>>
    ELSE IF FLeq(key[Head(s)], key[x]) THEN <<x>> \o s
    ELSE <<Head(s)>> \o InsertDescFront(Tail(s), x, key)

RECURSIVE SortFromFront(_, _, _, _)
SortFromFront(s, i, acc, key) ==
    IF i > Len(s) THEN acc
    ELSE SortFromFront(s, i + 1, InsertDescFront(acc, s[i], key), key)

\* Mutant of SortedReverse: sorted(s, key=...)[::-1], which turns the order
\* of equal keys around.
SortedReverse_TiesReversed(s, key) == SortFromFront(s, 1, <<>>, key)

\* sorted(s, key=..., reverse=True): descending, equal keys in input order.
SortedReverse(s, key) == SortFrom(s, 1, <<>>, key)

Range(s) == {s[i] : i \in 1..Len(s)}

(* -------------------------------- state -------------------------------- *)

VARIABLES
    analyses,             \* what analyze_stock returns per company_map value
    budget,               \* the budget of the query or of the call
    pc,                   \* where the control is
    caller,               \* who called optimize_portfolio: "query" or "direct"
    extra,                \* keys get_budget_optimized_stocks adds to a record
    all_stocks,           \* get_budget_optimized_stocks: all_stocks
    single_stock,         \* get_budget_optimized_stocks: single_stock
    stocks,               \* optimize_portfolio: the argument stocks
    stocks_by_efficiency, \* optimize_portfolio: stocks_by_efficiency
    pos,                  \* optimize_portfolio: position of the for loop
    portfolio,            \* optimize_portfolio: portfolio
    remaining_budget,     \* optimize_portfolio: remaining_budget
    picked,               \* history: the record each portfolio line was made from
    response,             \* process_query: the kind of answer returned
    threads,              \* concurrent callers: each one's arguments, position and results
    frames,               \* concurrent callers: where each one's remaining_budget lives
    STOCKS,               \* stock watch: the global list STOCKS
    entry_remove_symbol,  \* stock watch: the text of the entry field
    auto_refresh_var,     \* stock watch: the Auto Refresh checkbox
    scheduled,            \* stock watch: root.after calls of update_table not yet run
    table,                \* stock watch: the rows the table shows
    handler,              \* stock watch: the callback that ran last
    Inventory,            \* inventory app: the rows of table Inventory the connection sees
    Products,             \* inventory app: the rows of table Products the connection sees
    ProductRequirements,  \* inventory app: the rows of table ProductRequirements it sees
    sqlite_sequence,      \* inventory app: the largest AUTOINCREMENT key given per table
    committed,            \* inventory app: the three tables as of the last commit
    item_name_var,        \* inventory app: the Item Name add_or_update_item read (else empty)
    item_quantity_var,    \* inventory app: the Quantity add_or_update_item read (else empty)
    item_price_var,       \* inventory app: the Price add_or_update_item read (else empty)
    inventory_tree,       \* inventory app: the rows of the inventory tree view
    product_tree,         \* inventory app: the rows of the product tree view
    item_requirements,    \* inventory app: item ids of the open Add Product pop-up
    popup,                \* inventory app: an Add Product pop-up is open
    selected_id,          \* inventory app: the id a delete callback read from its tree (else 0)
    existing_item,        \* inventory app: add_or_update_item's existing_item (0: None or not run)
    messagebox,           \* inventory app: the dialogs the last callback showed, with answers
    command               \* inventory app: the callback that ran last

\* The variables of the stock watch GUI (prediction_of_stock.py).
watch == <<STOCKS, entry_remove_symbol, auto_refresh_var, scheduled, table, handler>>

\* The variables of the inventory app (Inventory_management.py).
inventory == <<Inventory, Products, ProductRequirements, sqlite_sequence, committed,
               item_name_var, item_quantity_var, item_price_var, inventory_tree,
               product_tree, item_requirements, popup, selected_id, existing_item,
               messagebox, command>>

\* The inventory app is another program: it is not running while the
\* allocator or the stock watch GUI is.
InventoryNotRunning ==
    /\ Inventory = {}
    /\ Products = {}
    /\ ProductRequirements = {}
    /\ sqlite_sequence = <<>>
    /\ committed = <<>>
    /\ item_name_var = <<>>
    /\ item_quantity_var = <<>>
    /\ item_price_var = <<>>
    /\ inventory_tree = <<>>
    /\ product_tree = <<>>
    /\ item_requirements = <<>>
    /\ popup = FALSE
    /\ selected_id = 0
    /\ existing_item = 0
    /\ messagebox = <<>>
    /\ command = "none"

\* The stock watch GUI is another program: it is not running while the
\* allocator is.
WatchNotRunning ==
    /\ STOCKS = <<>>
    /\ entry_remove_symbol = <<>>
    /\ auto_refresh_var = FALSE
    /\ scheduled = 0
    /\ table = <<>>
    /\ handler = "none"

vars == <<inventory, watch, threads, frames, analyses, budget, pc, caller, extra, all_stocks, single_stock, stocks,
          stocks_by_efficiency, pos, portfolio, remaining_budget, picked, response>>

NoExtra == [possible_shares |-> 0, total_cost |-> FZero, potential_profit |-> FZero,
            set |-> FALSE]

\* The asset universes of at most MaxAssets records.  The allocator never
\* compares a symbol with a literal, so the two symbols are interchangeable
\* and the first record is given the first of them.
Universes ==
    {u \in UNION {[1..n -> Analysis \cup {NoAnalysis}] : n \in 0..MaxAssets} :
        u # <<>> => u[1].symbol # "B"}

Init ==
    /\ analyses \in Universes
    /\ budget \in Budgets
    /\ pc = "idle"
    /\ caller = "none"
    /\ extra = [i \in DOMAIN analyses |-> NoExtra]
    /\ all_stocks = <<>>
    /\ single_stock = <<>>
    /\ stocks = <<>>
    /\ stocks_by_efficiency = <<>>
    /\ pos = 0
    /\ portfolio = <<>>
    /\ remaining_budget = FZero
    /\ picked = <<>>
    /\ response = "none"
    /\ threads = <<>>
    /\ frames = <<>>
    /\ WatchNotRunning
    /\ InventoryNotRunning

(* ---------------------- get_budget_optimized_stocks --------------------- *)

\* Mutant of MaxSharesOf: the quotient rounded up instead of truncated.
MaxSharesOf_RoundedUp(i) == Trunc(FDiv(budget, analyses[i].current_price)) + 1

\* Lines 529-535 for the record at index i: what the loop body does to it.
\* budget / 0 is infinite on the numpy prices analyze_stock returns, and
\* int() of it raises OverflowError.
MaxSharesOf(i) == Trunc(FDiv(budget, analyses[i].current_price))

ExtraOf(i) ==
    LET max_shares == MaxSharesOf(i)
        total_cost == FMul(FromInt(max_shares), analyses[i].current_price)
    IN  [possible_shares |-> max_shares,
         total_cost |-> total_cost,
         potential_profit |->
             FMul(total_cost, FDiv(analyses[i].future_potential, Hundred)),
         set |-> TRUE]

\* Mutant of FilterFrom: the loop ends at the first symbol without an
\* analysis (break) instead of going on to the next.
RECURSIVE FilterFrom_StopsAtNone(_, _, _)
FilterFrom_StopsAtNone(i, acc, ex) ==
    IF i > Len(analyses) THEN [all |-> acc, extra |-> ex, raised |-> FALSE]
    ELSE IF analyses[i] = NoAnalysis THEN [all |-> acc, extra |-> ex, raised |-> FALSE]
    ELSE IF analyses[i].current_price.m = 0
         THEN [all |-> acc, extra |-> ex, raised |-> TRUE]
    ELSE IF Trunc(FDiv(budget, analyses[i].current_price)) > 0
         THEN FilterFrom_StopsAtNone(i + 1, Append(acc, i),
                                     [ex EXCEPT ![i] = ExtraOf(i)])
    ELSE FilterFrom_StopsAtNone(i + 1, acc, ex)

\* The for loop of lines 526-535 from index i on: the list built, the keys
\* added to the records, and whether an exception ended it.
RECURSIVE FilterFrom(_, _, _)
FilterFrom(i, acc, ex) ==
    IF i > Len(analyses) THEN [all |-> acc, extra |-> ex, raised |-> FALSE]
    ELSE IF analyses[i] = NoAnalysis THEN FilterFrom(i + 1, acc, ex)
    ELSE IF analyses[i].current_price.m = 0
         THEN [all |-> acc, extra |-> ex, raised |-> TRUE]
    ELSE IF MaxSharesOf(i) > 0
         THEN FilterFrom(i + 1, Append(acc, i), [ex EXCEPT ![i] = ExtraOf(i)])
    ELSE FilterFrom(i + 1, acc, ex)

PotentialKey == [i \in DOMAIN analyses |-> analyses[i].future_potential]

\* Mutant of ProcessQuery: the test is `budget is not None`, which a budget
\* of 0 passes.
ProcessQuery_NotNoneTest ==
    /\ pc = "idle"
    /\ pc' = "get_budget_optimized_stocks"
    /\ UNCHANGED <<inventory, watch, threads, frames, analyses, budget, caller, extra, all_stocks, single_stock,
                   stocks, stocks_by_efficiency, pos, portfolio,
                   remaining_budget, picked, response>>

\* process_query, lines 573-590: the budget parsed from the query is truthy.
ProcessQuery ==
    /\ pc = "idle"
    /\ IF budget.m # 0
       THEN /\ pc' = "get_budget_optimized_stocks"
            /\ UNCHANGED response
       ELSE /\ pc' = "done"
            /\ response' = "super"
    /\ UNCHANGED <<inventory, watch, threads, frames, analyses, budget, caller, extra, all_stocks, single_stock,
                   stocks, stocks_by_efficiency, pos, portfolio,
                   remaining_budget, picked>>

\* get_budget_optimized_stocks, lines 524-541, up to the call of
\* optimize_portfolio(all_stocks, budget).
GetBudgetOptimizedStocks ==
    /\ pc = "get_budget_optimized_stocks"
    /\ LET f == FilterFrom(1, <<>>, extra)
       IN  /\ extra' = f.extra
           /\ IF f.raised
              THEN /\ pc' = "raised"
                   /\ UNCHANGED <<all_stocks, single_stock, stocks, caller>>
              ELSE /\ all_stocks' = f.all
                   /\ single_stock' = SortedReverse(f.all, PotentialKey)
                   /\ stocks' = f.all
                   /\ caller' = "query"
                   /\ pc' = "optimize_portfolio"
    /\ UNCHANGED <<inventory, watch, threads, frames, analyses, budget, stocks_by_efficiency, pos, portfolio,
                   remaining_budget, picked, response>>

(* --------------------------- optimize_portfolio ------------------------- *)

\* A caller other than get_budget_optimized_stocks passes a list of its own,
\* of records, and a budget above zero.
DirectCall ==
    /\ pc = "idle"
    /\ FLess(FZero, budget)
    /\ \A i \in DOMAIN analyses : analyses[i] # NoAnalysis
    /\ stocks' = [i \in 1..Len(analyses) |-> i]
    /\ caller' = "direct"
    /\ pc' = "optimize_portfolio"
    /\ UNCHANGED <<inventory, watch, threads, frames, analyses, budget, extra, all_stocks, single_stock,
                   stocks_by_efficiency, pos, portfolio, remaining_budget,
                   picked, response>>

\* Mutant of Efficiency: the key of the single-stock ranking used again.
Efficiency_PotentialOnly(i) == analyses[i].future_potential

\* The sort key of line 552.
Efficiency(i) == FDiv(analyses[i].future_potential, analyses[i].current_price)

EfficiencyKey == [i \in Range(stocks) |-> Efficiency(i)]

\* Mutant of OptimizeSort: the first candidate is read before the loop, which
\* raises IndexError on an empty list.
OptimizeSort_ReadsFirst ==
    /\ pc = "optimize_portfolio"
    /\ IF stocks = <<>> \/ \E i \in Range(stocks) : analyses[i].current_price.m = 0
       THEN /\ pc' = "raised"
            /\ UNCHANGED <<stocks_by_efficiency, pos, portfolio, remaining_budget>>
       ELSE /\ portfolio' = <<>>
            /\ remaining_budget' = budget
            /\ stocks_by_efficiency' =
                   SortedReverse(stocks,
                       [i \in Range(stocks) |->
                            FDiv(analyses[i].future_potential, analyses[i].current_price)])
            /\ pos' = 1
            /\ pc' = "loop"
    /\ UNCHANGED <<inventory, watch, threads, frames, analyses, budget, caller, extra, all_stocks, single_stock,
                   stocks, picked, response>>

\* Mutant of OptimizeSort: the argument is sorted in place (stocks.sort)
\* instead of copied by sorted().
OptimizeSort_SortsInPlace ==
    /\ pc = "optimize_portfolio"
    /\ IF \E i \in Range(stocks) : analyses[i].current_price.m = 0
       THEN /\ pc' = "raised"
            /\ UNCHANGED <<stocks, stocks_by_efficiency, pos, portfolio,
                           remaining_budget>>
       ELSE /\ portfolio' = <<>>
            /\ remaining_budget' = budget
            /\ stocks' = SortedReverse(stocks, EfficiencyKey)
            /\ stocks_by_efficiency' = stocks'
            /\ pos' = 1
            /\ pc' = "loop"
    /\ UNCHANGED <<inventory, watch, threads, frames, analyses, budget, caller, extra, all_stocks, single_stock,
                   picked, response>>

\* Lines 547-554.  The key of a record priced 0 raises ZeroDivisionError.
OptimizeSort ==
    /\ pc = "optimize_portfolio"
    /\ IF \E i \in Range(stocks) : analyses[i].current_price.m = 0
       THEN /\ pc' = "raised"
            /\ UNCHANGED <<stocks_by_efficiency, pos, portfolio, remaining_budget>>
       ELSE /\ portfolio' = <<>>
            /\ remaining_budget' = budget
            /\ stocks_by_efficiency' = SortedReverse(stocks, EfficiencyKey)
            /\ pos' = 1
            /\ pc' = "loop"
    /\ UNCHANGED <<inventory, watch, threads, frames, analyses, budget, caller, extra, all_stocks, single_stock,
                   stocks, picked, response>>

\* Line 558 for the record at index i.
PossibleShares(i) == Trunc(FDiv(remaining_budget, analyses[i].current_price))

\* Mutant of StockAllocation: the symbol is read from the first candidate
\* instead of the current one.
StockAllocation_FirstSymbol(i) ==
    LET stock == analyses[i]
        possible_shares == Trunc(FDiv(remaining_budget, stock.current_price))
    IN  [symbol |-> analyses[stocks_by_efficiency[1]].symbol,
         shares |-> possible_shares,
         cost |-> FMul(FromInt(possible_shares), stock.current_price),
         potential_return |->
             FDiv(FMul(FMul(FromInt(possible_shares), stock.current_price),
                       stock.future_potential),
                  Hundred)]

\* Mutant of StockAllocation: the return is not divided by 100.
StockAllocation_ReturnNotPercent(i) ==
    LET stock == analyses[i]
        possible_shares == Trunc(FDiv(remaining_budget, stock.current_price))
    IN  [symbol |-> stock.symbol,
         shares |-> possible_shares,
         cost |-> FMul(FromInt(possible_shares), stock.current_price),
         potential_return |->
             FMul(FMul(FromInt(possible_shares), stock.current_price),
                  stock.future_potential)]

\* Lines 561-567 for the record at index i.
StockAllocation(i) ==
    LET stock == analyses[i]
        possible_shares == PossibleShares(i)
    IN  [symbol |-> stock.symbol,
         shares |-> possible_shares,
         cost |-> FMul(FromInt(possible_shares), stock.current_price),
         potential_return |->
             FDiv(FMul(FMul(FromInt(possible_shares), stock.current_price),
                       stock.future_potential),
                  Hundred)]

\* Mutant of Selects: the test possible_shares > 0 of line 560 is missing.
Selects_NoSharesTest(i) == FLeq(analyses[i].current_price, remaining_budget)

\* Mutant of Selects: a record whose symbol the portfolio already holds is
\* passed over.
Selects_SkipsSeenSymbol(i) ==
    /\ FLeq(analyses[i].current_price, remaining_budget)
    /\ Trunc(FDiv(remaining_budget, analyses[i].current_price)) > 0
    /\ \A k \in 1..Len(portfolio) : portfolio[k].symbol # analyses[i].symbol

\* Whether the body of the loop emits a line for the record at index i
\* (lines 557 and 560).
Selects(i) ==
    /\ FLeq(analyses[i].current_price, remaining_budget)
    /\ PossibleShares(i) > 0

\* Mutant of LoopStep: a while loop that stays on a record after buying it
\* and moves on only when the record is not bought.
LoopStep_Reconsiders ==
    /\ pc = "loop"
    /\ pos <= Len(stocks_by_efficiency)
    /\ LET i == stocks_by_efficiency[pos]
       IN  IF Selects(i)
           THEN /\ portfolio' = Append(portfolio, StockAllocation(i))
                /\ remaining_budget' = FSub(remaining_budget, StockAllocation(i).cost)
                /\ picked' = Append(picked, i)
                /\ pos' = pos
           ELSE /\ UNCHANGED <<portfolio, remaining_budget, picked>>
                /\ pos' = pos + 1
    /\ UNCHANGED <<inventory, watch, threads, frames, analyses, budget, pc, caller, extra, all_stocks, single_stock,
                   stocks, stocks_by_efficiency, response>>

\* One iteration of the for loop, lines 556-569.
LoopStep ==
    /\ pc = "loop"
    /\ pos <= Len(stocks_by_efficiency)
    /\ LET i == stocks_by_efficiency[pos]
       IN  IF Selects(i)
           THEN /\ portfolio' = Append(portfolio, StockAllocation(i))
                /\ remaining_budget' = FSub(remaining_budget, StockAllocation(i).cost)
                /\ picked' = Append(picked, i)
           ELSE UNCHANGED <<portfolio, remaining_budget, picked>>
    /\ pos' = pos + 1
    /\ UNCHANGED <<inventory, watch, threads, frames, analyses, budget, pc, caller, extra, all_stocks, single_stock,
                   stocks, stocks_by_efficiency, response>>

\* Line 571: the list is exhausted and the portfolio is returned.
OptimizeReturn ==
    /\ pc = "loop"
    /\ pos > Len(stocks_by_efficiency)
    /\ pc' = IF caller = "query" THEN "respond" ELSE "done"
    /\ UNCHANGED <<inventory, watch, threads, frames, analyses, budget, caller, extra, all_stocks, single_stock,
                   stocks, stocks_by_efficiency, pos, portfolio,
                   remaining_budget, picked, response>>

\* process_query, lines 596-638: the branch on the two results.
Respond ==
    /\ pc = "respond"
    /\ response' = IF single_stock = <<>> /\ portfolio = <<>>
                   THEN "sorry" ELSE "recommendations"
    /\ pc' = "done"
    /\ UNCHANGED <<inventory, watch, threads, frames, analyses, budget, caller, extra, all_stocks, single_stock,
                   stocks, stocks_by_efficiency, pos, portfolio,
                   remaining_budget, picked>>

Next ==
    \/ ProcessQuery
    \/ GetBudgetOptimizedStocks
    \/ DirectCall
    \/ OptimizeSort
    \/ LoopStep
    \/ OptimizeReturn
    \/ Respond

Spec == Init /\ [][Next]_vars

\* The for statement of line 556 taking its next element: LoopStep as it
\* shows on the position of the loop.  Every LoopStep is such a step, and
\* one is possible exactly when LoopStep is.
NextElement ==
    /\ pc = "loop"
    /\ pos <= Len(stocks_by_efficiency)
    /\ pos' = pos + 1

\* optimize_portfolio is sequential code without a blocking call: while the
\* list has an element left the loop takes it, and when it has none the
\* function returns.
SpecFair == Spec /\ WF_pos(NextElement) /\ WF_vars(OptimizeReturn)

(* ------------------------- notions of the claims ------------------------ *)

\* The exact value of a float that stands for a whole number, as every
\* price, budget and cost of this model does.
Whole(x) == Trunc(x)

RECURSIVE TotalCost(_)
TotalCost(p) == IF p = <<>> THEN 0 ELSE Whole(Head(p).cost) + TotalCost(Tail(p))

Price(i) == analyses[i].current_price
Potential(i) == analyses[i].future_potential

\* future_potential / current_price as line 552 computes it.
Eff(i) == FDiv(Potential(i), Price(i))

\* optimize_portfolio has been entered and has sorted its candidates.
InOptimize == pc \in {"loop", "respond", "done"} /\ caller # "none"

\* optimize_portfolio has returned its portfolio.
OptimizeReturned == pc \in {"respond", "done"} /\ caller # "none"

\* get_budget_optimized_stocks has built the single-stock ranking.
Ranked == caller = "query"

\* The position of record i in the sequence s of distinct indices.
PosIn(s, i) == CHOOSE k \in 1..Len(s) : s[k] = i

IsPermutationOf(s, t) ==
    /\ Len(s) = Len(t)
    /\ Range(s) = Range(t)
    /\ \A a, b \in 1..Len(s) : a # b => s[a] # s[b]

(* -------------------------------- claims -------------------------------- *)

\* C1: the portfolio optimize_portfolio returns never costs more than the
\* budget: the sum of its lines' costs is at most B.
C1_NeverOverspends ==
    OptimizeReturned => TotalCost(portfolio) <= Whole(budget)

\* C2: at every step of the greedy loop remaining_budget is at least 0, and
\* the cost of each emitted line is at most the remaining_budget that held
\* just before the line was selected.
C2_NoOverdraft ==
    [][/\ pc = "loop" => FLeq(FZero, remaining_budget)
       /\ pc' = "loop" => FLeq(FZero, remaining_budget')
       /\ Len(portfolio') > Len(portfolio) =>
              FLeq(portfolio'[Len(portfolio')].cost, remaining_budget)]_vars

\* C3: every line of a portfolio has a whole number of shares, at least 1.
C3_SharesAtLeastOne ==
    \A k \in 1..Len(portfolio) :
        portfolio[k].shares \in Nat /\ portfolio[k].shares >= 1

\* C3 witness: a portfolio of two lines has been returned.
C3_Witness == OptimizeReturned /\ Len(portfolio) = 2

NoSymbolTwice ==
    \A a, b \in 1..Len(portfolio) :
        a # b => portfolio[a].symbol # portfolio[b].symbol

\* C4 as stated: no symbol appears in more than one line of the portfolio,
\* whatever the asset list.
C4_NoSymbolTwice == NoSymbolTwice

DistinctSymbols ==
    \A a, b \in 1..Len(stocks) :
        a # b => analyses[stocks[a]].symbol # analyses[stocks[b]].symbol

\* C4 as amended: no record of the asset list yields more than one line, and
\* when the records of the list carry distinct symbols, no symbol appears in
\* more than one line.
C4_NoSymbolTwiceWhenDistinct ==
    /\ \A a, b \in 1..Len(picked) : a # b => picked[a] # picked[b]
    /\ Len(picked) = Len(portfolio)
    /\ \A k \in 1..Len(picked) : portfolio[k].symbol = analyses[picked[k]].symbol
    /\ InOptimize /\ DistinctSymbols => NoSymbolTwice

\* C4 witness: two records of distinct symbols have each yielded a line.
C4_Witness == OptimizeReturned /\ DistinctSymbols /\ Len(portfolio) = 2

\* C5: the single-stock ranking holds exactly the records with a price the
\* budget affords (0 < current_price <= B), each once, by future_potential
\* descending, records of equal future_potential in their input order.
C5_RankSingle ==
    Ranked =>
        /\ Cardinality(Range(single_stock)) = Len(single_stock)
        /\ Range(single_stock) =
               {i \in DOMAIN analyses :
                    FLess(FZero, Price(i)) /\ FLeq(Price(i), budget)}
        /\ \A a, b \in 1..Len(single_stock) :
               a < b =>
                   \/ FLess(Potential(single_stock[b]), Potential(single_stock[a]))
                   \/ /\ Potential(single_stock[b]) = Potential(single_stock[a])
                      /\ single_stock[a] < single_stock[b]

\* C5 witness: two affordable records of equal future_potential are ranked
\* in their input order.
C5_Witness ==
    /\ Ranked
    /\ single_stock = <<1, 2>>
    /\ Potential(1) = Potential(2)
    /\ analyses[1] # analyses[2]

\* C6: a record with current_price <= 0 is silently left out by both
\* functions: no error is raised and the record is in neither result.
C6_MalformedExcluded ==
    /\ pc # "raised"
    /\ \A i \in Range(single_stock) \cup Range(picked) : FLess(FZero, Price(i))

\* C7: optimize_portfolio takes its candidates by efficiency descending,
\* equal efficiencies in input order, and the lines of the portfolio appear
\* in that order.
C7_EfficiencyOrder ==
    InOptimize =>
        /\ IsPermutationOf(stocks_by_efficiency, stocks)
        /\ \A a, b \in 1..Len(stocks_by_efficiency) :
               a < b =>
                   \/ FLess(Eff(stocks_by_efficiency[b]), Eff(stocks_by_efficiency[a]))
                   \/ /\ Eff(stocks_by_efficiency[b]) = Eff(stocks_by_efficiency[a])
                      /\ stocks_by_efficiency[a] < stocks_by_efficiency[b]
        /\ \A k \in 1..Len(picked) :
               /\ picked[k] \in Range(stocks_by_efficiency)
               /\ PosIn(stocks_by_efficiency, picked[k]) < pos
        /\ \A a, b \in 1..Len(picked) :
               a < b => PosIn(stocks_by_efficiency, picked[a])
                            < PosIn(stocks_by_efficiency, picked[b])

\* C7 witness: the second record of the input was taken first, and both
\* records have a line.
C7_Witness ==
    /\ OptimizeReturned
    /\ stocks_by_efficiency = <<2, 1>>
    /\ picked = <<2, 1>>

\* The candidate the next iteration of the loop processes.
Candidate == stocks_by_efficiency[pos]

\* C8: a candidate reached with remaining_budget >= current_price gets a
\* line of floor(remaining_budget / current_price) shares and remaining_budget
\* falls by exactly shares * current_price; one reached with
\* remaining_budget < current_price gets no line and remaining_budget stays.
\* Stated for records of a positive price.
C8_StepContract ==
    [][(pc = "loop" /\ pos <= Len(stocks_by_efficiency)
            /\ FLess(FZero, Price(Candidate)) /\ FLeq(FZero, remaining_budget)) =>
          IF FLeq(Price(Candidate), remaining_budget)
          THEN /\ Len(portfolio') = Len(portfolio) + 1
               /\ portfolio'[Len(portfolio')].shares =
                      Whole(remaining_budget) \div Whole(Price(Candidate))
               /\ Whole(remaining_budget') =
                      Whole(remaining_budget)
                          - portfolio'[Len(portfolio')].shares * Whole(Price(Candidate))
          ELSE /\ portfolio' = portfolio
               /\ remaining_budget' = remaining_budget]_vars

\* No record of the universe has a price the budget affords.
NoneAffordable ==
    /\ FLess(FZero, budget)
    /\ \A i \in DOMAIN analyses : FLess(budget, Price(i))

\* C9: when no record has current_price <= B, the ranking and the portfolio
\* are empty, nothing is raised, and process_query answers that no stock is
\* within the budget.
C9_NoViableAsset ==
    NoneAffordable =>
        /\ pc # "raised"
        /\ single_stock = <<>>
        /\ portfolio = <<>>
        /\ (pc = "done" /\ caller = "query") => response = "sorry"

\* C9 witness: a query over a universe of unaffordable records has been
\* answered.
C9_Witness ==
    /\ NoneAffordable
    /\ Len(analyses) = 2
    /\ pc = "done"
    /\ caller = "query"
    /\ response = "sorry"

\* C10: with an empty universe and a budget above 0, the ranking and the
\* portfolio are empty and nothing is raised.
C10_EmptyUniverse ==
    (analyses = <<>> /\ FLess(FZero, budget)) =>
        /\ pc # "raised"
        /\ single_stock = <<>>
        /\ portfolio = <<>>
        /\ pc = "done" => \/ caller = "direct"
                          \/ caller = "query" /\ response = "sorry"

\* C10 witness: both functions have returned on an empty universe.
C10_Witness ==
    /\ analyses = <<>>
    /\ FLess(FZero, budget)
    /\ pc = "done"
    /\ caller = "query"
    /\ all_stocks = <<>>

\* C12: process_query calls get_budget_optimized_stocks, and through it
\* optimize_portfolio, only with a budget above 0.
C12_PositiveBudgetOnly ==
    (pc = "get_budget_optimized_stocks" \/ caller = "query") => FLess(FZero, budget)

\* C12 witness: a query with a budget of 0 was answered without the
\* allocator having been called.
C12_Witness ==
    /\ budget = FZero
    /\ pc = "done"
    /\ response = "super"
    /\ caller = "none"
    /\ analyses # <<>>

C14_PerRecord ==
    [][/\ InOptimize' => IsPermutationOf(stocks_by_efficiency', stocks')
       /\ (/\ pc = "loop"
           /\ pos' = pos + 1
           /\ FLess(FZero, Price(stocks_by_efficiency[pos]))
           /\ FLeq(Price(stocks_by_efficiency[pos]), remaining_budget))
          => LET i == stocks_by_efficiency[pos]
                 n == Trunc(FDiv(remaining_budget, Price(i)))
             IN  /\ Len(portfolio') = Len(portfolio) + 1
                 /\ SubSeq(portfolio', 1, Len(portfolio)) = portfolio
                 /\ picked' = Append(picked, i)
                 /\ portfolio'[Len(portfolio')] =
                        [symbol |-> analyses[i].symbol,
                         shares |-> n,
                         cost |-> FMul(FromInt(n), Price(i)),
                         potential_return |->
                             FDiv(FMul(FMul(FromInt(n), Price(i)), Potential(i)),
                                  Hundred)]]_vars

\* C14 witness: two records of one symbol and different prices were both
\* reached with enough budget, and the portfolio returned has a line for
\* each.
C14_Witness ==
    /\ OptimizeReturned
    /\ Len(analyses) = 2
    /\ analyses[1].symbol = analyses[2].symbol
    /\ Price(1) # Price(2)
    /\ Len(portfolio) = 2
    /\ Range(picked) = {1, 2}
    /\ portfolio[1].cost # portfolio[2].cost

\* C16: every line of the portfolio has cost = shares * current_price and
\* potential_return = cost * future_potential / 100, with the price and the
\* potential of the record the line was made from; the products and the
\* quotient are the floating-point ones the program computes.
C16_LineArithmetic ==
    /\ Len(picked) = Len(portfolio)
    /\ \A k \in 1..Len(portfolio) :
           /\ portfolio[k].cost =
                  FMul(FromInt(portfolio[k].shares), Price(picked[k]))
           /\ portfolio[k].potential_return =
                  FDiv(FMul(portfolio[k].cost, Potential(picked[k])), Hundred)

\* C16 witness: a portfolio of two lines was returned, of records that differ
\* in price and in potential, one line holding several shares.
C16_Witness ==
    /\ OptimizeReturned
    /\ Len(portfolio) = 2
    /\ Price(picked[1]) # Price(picked[2])
    /\ Potential(picked[1]) # Potential(picked[2])
    /\ portfolio[1].shares > 1
    /\ portfolio[1].potential_return # FZero
    /\ portfolio[2].potential_return # FZero

\* The example of the claim: A at 100 with potential 20, B at 50 with
\* potential 15, a budget of 120, after optimize_portfolio has returned.
ScenarioReturned ==
    /\ analyses = <<[symbol |-> "A", current_price |-> FromInt(100),
                     future_potential |-> FromInt(20)],
                    [symbol |-> "B", current_price |-> FromInt(50),
                     future_potential |-> FromInt(15)]>>
    /\ budget = FromInt(120)
    /\ OptimizeReturned

\* C17: on the example, optimize_portfolio returns the single line B: 2
\* shares, cost 100, return 30, a total cost of 100, and leaves 20 of the
\* budget; A is skipped.
C17_ReturnThirty ==
    ScenarioReturned =>
        /\ portfolio = <<[symbol |-> "B", shares |-> 2, cost |-> FromInt(100),
                          potential_return |-> FromInt(30)]>>
        /\ TotalCost(portfolio) = 100
        /\ remaining_budget = FromInt(20)
        /\ picked = <<2>>

\* C17 as amended: on the example the single line is B: 2 shares, cost 100,
\* return 15 (100 * 15 / 100), the total cost is 100, 20 of the budget is
\* left and A is skipped.
C17_ReturnFifteen ==
    ScenarioReturned =>
        /\ portfolio = <<[symbol |-> "B", shares |-> 2, cost |-> FromInt(100),
                          potential_return |-> FromInt(15)]>>
        /\ TotalCost(portfolio) = 100
        /\ remaining_budget = FromInt(20)
        /\ picked = <<2>>

\* C17 witness: optimize_portfolio was called on the example's list and has
\* returned.
C17_Witness == ScenarioReturned /\ caller = "direct" /\ pc = "done"

(* ------------------- the two results as functions ---------------------- *)

\* The results of get_budget_optimized_stocks and optimize_portfolio written
\* as functions of a universe u (what analyze_stock returns, symbol by
\* symbol, NoAnalysis for None) and a budget b, for claims that compare the
\* results on two universes.

\* u without the symbols analyze_stock could not score.
Scored(u) == SelectSeq(u, LAMBDA r : r # NoAnalysis)

\* Whether the run on u raises: budget / 0 at line 529, or the key of line
\* 552.
RaisesOn(u) == \E k \in 1..Len(u) : u[k] # NoAnalysis /\ u[k].current_price.m = 0

\* Lines 526-535: all_stocks as records.
AllStocksOf(u, b) ==
    SelectSeq(u, LAMBDA r : r # NoAnalysis /\ Trunc(FDiv(b, r.current_price)) > 0)

\* sorted(l, key=..., reverse=True) for a list l of records and the key k of
\* each position.
SortedRecords(l, k) ==
    LET order == SortedReverse([i \in 1..Len(l) |-> i], k)
    IN  [n \in 1..Len(l) |-> l[order[n]]]

\* Lines 537-539: single_stock.
SingleStockOf(u, b) ==
    LET all == AllStocksOf(u, b)
    IN  SortedRecords(all, [i \in 1..Len(all) |-> all[i].future_potential])

\* Lines 556-571: the loop over the sorted list l with rb left.
RECURSIVE GreedyFill(_, _)
GreedyFill(l, rb) ==
    IF l = <<>> THEN <<>>
    ELSE LET stock == Head(l)
             possible_shares == Trunc(FDiv(rb, stock.current_price))
             cost == FMul(FromInt(possible_shares), stock.current_price)
         IN  IF FLeq(stock.current_price, rb) /\ possible_shares > 0
             THEN <<[symbol |-> stock.symbol,
                     shares |-> possible_shares,
                     cost |-> cost,
                     potential_return |->
                         FDiv(FMul(cost, stock.future_potential), Hundred)]>>
                  \o GreedyFill(Tail(l), FSub(rb, cost))
             ELSE GreedyFill(Tail(l), rb)

\* Lines 545-571: optimize_portfolio(l, b) for a list l of records.
OptimizePortfolioOf(l, b) ==
    GreedyFill(SortedRecords(l, [i \in 1..Len(l) |->
                   FDiv(l[i].future_potential, l[i].current_price)]), b)

\* The records a list of indices stands for.
RecordsOf(s) == [k \in 1..Len(s) |-> analyses[s[k]]]

\* C18: symbols analyze_stock returns None for are skipped without error:
\* get_budget_optimized_stocks raises on a universe only if it raises on the
\* scored symbols alone, and the ranking and the portfolio it returns are
\* those computed over the scored symbols alone; when every symbol fails,
\* both are empty.
C18_FailedSymbolsSkipped ==
    /\ (pc = "raised" /\ caller = "none") => RaisesOn(Scored(analyses))
    /\ (pc = "done" /\ caller = "query") =>
           /\ ~RaisesOn(Scored(analyses))
           /\ RecordsOf(single_stock) = SingleStockOf(Scored(analyses), budget)
           /\ portfolio =
                  OptimizePortfolioOf(AllStocksOf(Scored(analyses), budget), budget)
           /\ (\A i \in DOMAIN analyses : analyses[i] = NoAnalysis) =>
                  single_stock = <<>> /\ portfolio = <<>>

\* C18 witness: a query was answered over a universe whose first symbol has
\* no analysis and whose second has one that is ranked and bought.
C18_Witness ==
    /\ pc = "done"
    /\ caller = "query"
    /\ Len(analyses) = 2
    /\ analyses[1] = NoAnalysis
    /\ single_stock = <<2>>
    /\ picked = <<2>>

\* C19: optimize_portfolio is a single pass.  Every step of the loop either
\* considers the record at the current position of the sorted list and moves
\* to the next position, adding at most one line, made from that record, or
\* finds the list exhausted and returns the portfolio as it is; the lines
\* made so far come from records before the current position, each from a
\* different one, so the portfolio never has more lines than the input has
\* records; and the loop, once entered, ends.
C19_SinglePass ==
    /\ [][pc = "loop" =>
            /\ stocks_by_efficiency' = stocks_by_efficiency
            /\ \/ /\ pos <= Len(stocks_by_efficiency)
                  /\ pos' = pos + 1
                  /\ pc' = "loop"
                  /\ \/ UNCHANGED <<portfolio, picked, remaining_budget>>
                     \/ /\ Len(portfolio') = Len(portfolio) + 1
                        /\ picked' = Append(picked, stocks_by_efficiency[pos])
               \/ /\ pos = Len(stocks_by_efficiency) + 1
                  /\ pc' \in {"respond", "done"}
                  /\ UNCHANGED <<pos, portfolio, picked, remaining_budget>>]_vars
    /\ [](InOptimize =>
            /\ Len(stocks_by_efficiency) = Len(stocks)
            /\ pos \in 1..(Len(stocks_by_efficiency) + 1)
            /\ Len(portfolio) = Len(picked)
            /\ Len(portfolio) <= Len(stocks)
            /\ \A k \in 1..Len(picked) :
                   /\ PosIn(stocks_by_efficiency, picked[k]) < pos
                   /\ \A j \in 1..(k - 1) :
                          PosIn(stocks_by_efficiency, picked[j])
                              < PosIn(stocks_by_efficiency, picked[k]))
    /\ (pc = "loop" ~> (pc \in {"respond", "done"} /\ pos = Len(stocks) + 1))

\* C19 witness: the pass over two records has ended; the first of the sorted
\* list was skipped as unaffordable and the second bought, with budget left
\* over.
C19_Witness ==
    /\ OptimizeReturned
    /\ Len(stocks_by_efficiency) = 2
    /\ pos = 3
    /\ picked = <<stocks_by_efficiency[2]>>
    /\ Len(portfolio) = 1
    /\ FLess(Price(stocks_by_efficiency[1]), budget)
    /\ FLess(FZero, remaining_budget)

\* A hundred times the exact total potential return of the portfolio: the
\* sum over its lines of cost * future_potential of the line's record.
RECURSIVE ReturnTimes100(_)
ReturnTimes100(k) ==
    IF k = 0 THEN 0
    ELSE Whole(portfolio[k].cost) * Whole(Potential(picked[k])) + ReturnTimes100(k - 1)

\* The allocation that puts the whole budget on the record i alone: its
\* number of shares, which is a positive integer when the record is
\* affordable, and its cost, which is at most the budget.
AllInShares(i) == Whole(budget) \div Whole(Price(i))
AllInCost(i) == AllInShares(i) * Whole(Price(i))

\* Some allocation of positive integer shares within the budget has a
\* strictly greater total potential return than the portfolio returned.
BetterAllocationExists ==
    \E i \in Range(stocks) :
        /\ Whole(Price(i)) > 0
        /\ AllInShares(i) >= 1
        /\ AllInCost(i) <= Whole(budget)
        /\ AllInCost(i) * Whole(Potential(i)) > ReturnTimes100(Len(portfolio))

Callers == {1, 2}

\* Records with ties: the first two have the efficiency 0.2, the first and
\* the third the potential 20.
ConcAnalysis ==
    {[symbol |-> "A", current_price |-> FromInt(100), future_potential |-> FromInt(20)],
     [symbol |-> "B", current_price |-> FromInt(50), future_potential |-> FromInt(10)],
     [symbol |-> "B", current_price |-> FromInt(50), future_potential |-> FromInt(20)]}

ConcUniverses == UNION {[1..n -> ConcAnalysis] : n \in 0..MaxAssets}

ConcBudgets == {FromInt(60), FromInt(120)}

\* Mutant of Frame: remaining_budget is kept on the assistant
\* (self.remaining_budget), which the callers share.
Frame_OnSelf(t) == 1

\* remaining_budget is a local of optimize_portfolio (line 548): every call
\* has its own.
Frame(t) == t

\* Lines 561-567 for a record and what is left of the budget.
LineOf(stock, rb) ==
    LET possible_shares == Trunc(FDiv(rb, stock.current_price))
    IN  [symbol |-> stock.symbol,
         shares |-> possible_shares,
         cost |-> FMul(FromInt(possible_shares), stock.current_price),
         potential_return |->
             FDiv(FMul(FMul(FromInt(possible_shares), stock.current_price),
                       stock.future_potential),
                  Hundred)]

InitConc ==
    /\ threads \in [Callers -> [pc : {"get_budget_optimized_stocks"},
                                universe : ConcUniverses,
                                budget : ConcBudgets,
                                all_stocks : {<<>>},
                                single_stock : {<<>>},
                                stocks_by_efficiency : {<<>>},
                                pos : {0},
                                portfolio : {<<>>}]]
    /\ frames = [t \in Callers |-> FZero]
    /\ WatchNotRunning
    /\ InventoryNotRunning
    /\ analyses = <<>>
    /\ budget = FZero
    /\ pc = "concurrent"
    /\ caller = "none"
    /\ extra = <<>>
    /\ all_stocks = <<>>
    /\ single_stock = <<>>
    /\ stocks = <<>>
    /\ stocks_by_efficiency = <<>>
    /\ pos = 0
    /\ portfolio = <<>>
    /\ remaining_budget = FZero
    /\ picked = <<>>
    /\ response = "none"

sequential == <<inventory, watch, analyses, budget, pc, caller, extra, all_stocks, single_stock, stocks,
                stocks_by_efficiency, pos, portfolio, remaining_budget, picked,
                response>>

\* Lines 524-539 in caller t: all_stocks and the single-stock ranking.
RankSingle(t) ==
    /\ threads[t].pc = "get_budget_optimized_stocks"
    /\ threads' = [threads EXCEPT
           ![t].all_stocks = AllStocksOf(threads[t].universe, threads[t].budget),
           ![t].single_stock = SingleStockOf(threads[t].universe, threads[t].budget),
           ![t].pc = "optimize_portfolio"]
    /\ UNCHANGED <<frames, sequential>>

\* The records of l in an order that is descending by key k, whichever way
\* equal keys fall.
DescendingOrders(l, k) ==
    {[n \in 1..Len(l) |-> l[p[n]]] :
        p \in {q \in [1..Len(l) -> 1..Len(l)] :
                  /\ \A a, b \in 1..Len(l) : a # b => q[a] # q[b]
                  /\ \A a, b \in 1..Len(l) : a < b => ~FLess(k[q[a]], k[q[b]])}}

\* Mutant of ThreadSort: a sort that is not stable, equal keys falling in
\* any order.
ThreadSort_AnyTieOrder(t) ==
    /\ threads[t].pc = "optimize_portfolio"
    /\ LET l == threads[t].all_stocks
       IN  \E s \in DescendingOrders(l, [i \in 1..Len(l) |->
                        FDiv(l[i].future_potential, l[i].current_price)]) :
               threads' = [threads EXCEPT ![t].stocks_by_efficiency = s,
                                          ![t].portfolio = <<>>,
                                          ![t].pos = 1,
                                          ![t].pc = "loop"]
    /\ frames' = [frames EXCEPT ![Frame(t)] = threads[t].budget]
    /\ UNCHANGED sequential

\* Lines 547-554 in caller t.
ThreadSort(t) ==
    /\ threads[t].pc = "optimize_portfolio"
    /\ LET l == threads[t].all_stocks
       IN  threads' = [threads EXCEPT
               ![t].stocks_by_efficiency =
                   SortedRecords(l, [i \in 1..Len(l) |->
                       FDiv(l[i].future_potential, l[i].current_price)]),
               ![t].portfolio = <<>>,
               ![t].pos = 1,
               ![t].pc = "loop"]
    /\ frames' = [frames EXCEPT ![Frame(t)] = threads[t].budget]
    /\ UNCHANGED sequential

\* One iteration of the loop of lines 556-569 in caller t.
ThreadLoopStep(t) ==
    /\ threads[t].pc = "loop"
    /\ threads[t].pos <= Len(threads[t].stocks_by_efficiency)
    /\ LET stock == threads[t].stocks_by_efficiency[threads[t].pos]
           rb == frames[Frame(t)]
       IN  IF FLeq(stock.current_price, rb) /\ LineOf(stock, rb).shares > 0
           THEN /\ threads' = [threads EXCEPT
                        ![t].portfolio = Append(@, LineOf(stock, rb)),
                        ![t].pos = @ + 1]
                /\ frames' = [frames EXCEPT
                        ![Frame(t)] = FSub(rb, LineOf(stock, rb).cost)]
           ELSE /\ threads' = [threads EXCEPT ![t].pos = @ + 1]
                /\ UNCHANGED frames
    /\ UNCHANGED sequential

\* Line 571 in caller t.
ThreadReturn(t) ==
    /\ threads[t].pc = "loop"
    /\ threads[t].pos > Len(threads[t].stocks_by_efficiency)
    /\ threads' = [threads EXCEPT ![t].pc = "done"]
    /\ UNCHANGED <<frames, sequential>>

NextConc ==
    \E t \in Callers :
        \/ RankSingle(t)
        \/ ThreadSort(t)
        \/ ThreadLoopStep(t)
        \/ ThreadReturn(t)

SpecConc == InitConc /\ [][NextConc]_vars

\* C15: in every interleaving of two callers with inputs of their own, a
\* step of one caller changes nothing of the other (its arguments, its
\* lists, its position, its results, its remaining budget), and a caller
\* that has returned holds the ranking and the portfolio it would have got
\* when run alone.
C15_NoInterference ==
    [][/\ \E t \in Callers :
              \A u \in Callers \ {t} :
                  threads'[u] = threads[u] /\ frames'[u] = frames[u]
       /\ \A t \in Callers :
              threads'[t].pc = "done" =>
                  /\ threads'[t].single_stock =
                         SingleStockOf(threads'[t].universe, threads'[t].budget)
                  /\ threads'[t].portfolio =
                         OptimizePortfolioOf(
                             AllStocksOf(threads'[t].universe, threads'[t].budget),
                             threads'[t].budget)]_vars

\* C15 witness: both callers have returned, with different inputs and
\* different portfolios, neither empty.
C15_Witness ==
    /\ pc = "concurrent"
    /\ \A t \in Callers : threads[t].pc = "done" /\ threads[t].portfolio # <<>>
    /\ threads[1].universe # threads[2].universe
    /\ threads[1].budget # threads[2].budget
    /\ threads[1].portfolio # threads[2].portfolio

LeftoverPriceInts == {3, 50}
LeftoverBudgetInts == {0, 40, 3 * MantHi + 20}

LeftoverUniverses ==
    {u \in UNION {[1..n -> [symbol : Symbols,
                            current_price : {FromInt(k) : k \in LeftoverPriceInts},
                            future_potential : {FromInt(k) : k \in PotentialInts}]]
                     : n \in 0..MaxAssets} :
        u # <<>> => u[1].symbol = "A"}

InitLeftover ==
    /\ analyses \in LeftoverUniverses
    /\ budget \in {FromInt(k) : k \in LeftoverBudgetInts}
    /\ pc = "idle"
    /\ caller = "none"
    /\ extra = [i \in DOMAIN analyses |-> NoExtra]
    /\ all_stocks = <<>>
    /\ single_stock = <<>>
    /\ stocks = <<>>
    /\ stocks_by_efficiency = <<>>
    /\ pos = 0
    /\ portfolio = <<>>
    /\ remaining_budget = FZero
    /\ picked = <<>>
    /\ response = "none"
    /\ threads = <<>>
    /\ frames = <<>>
    /\ WatchNotRunning
    /\ InventoryNotRunning

\* The allocator on the inputs above.
SpecLeftover == InitLeftover /\ [][Next]_vars

\* C21: when optimize_portfolio returns, remaining_budget is strictly below
\* the current_price of every record of its input that has a positive
\* price, bought or not.
C21_NothingAffordableLeft ==
    OptimizeReturned =>
        \A i \in Range(stocks) :
            FLess(FZero, Price(i)) => FLess(remaining_budget, Price(i))

\* The records of the input of optimize_portfolio with 0 < current_price <= B.
Affordable ==
    {i \in Range(stocks) : FLess(FZero, Price(i)) /\ FLeq(Price(i), budget)}

\* The record of S that comes first in efficiency order: no other record of
\* S has a greater efficiency, nor an equal one and an earlier place in the
\* input.
FirstByEfficiency(S) ==
    CHOOSE i \in S :
        \A j \in S \ {i} :
            \/ FLess(Eff(j), Eff(i))
            \/ Eff(j) = Eff(i) /\ PosIn(stocks, i) < PosIn(stocks, j)

\* C22: if some record of the input has 0 < current_price <= B, the
\* portfolio returned is not empty, and its first line is for the record
\* first in efficiency order among those, with floor(B / current_price)
\* shares.
C22_FirstLine ==
    (OptimizeReturned /\ Affordable # {}) =>
        /\ portfolio # <<>>
        /\ picked[1] = FirstByEfficiency(Affordable)
        /\ portfolio[1].symbol = analyses[FirstByEfficiency(Affordable)].symbol
        /\ portfolio[1].shares =
               Whole(budget) \div Whole(Price(FirstByEfficiency(Affordable)))

\* C23: the sign of future_potential is not tested: a record of a positive
\* price and a negative potential that the loop reaches while
\* remaining_budget >= its price gets a line of
\* floor(remaining_budget / current_price) shares, whose potential_return is
\* negative.
C23_NegativePotentialBought ==
    [][(/\ pc = "loop"
        /\ pos <= Len(stocks_by_efficiency)
        /\ FLess(FZero, Price(Candidate))
        /\ FLess(Potential(Candidate), FZero)
        /\ FLeq(Price(Candidate), remaining_budget))
       => /\ Len(portfolio') = Len(portfolio) + 1
          /\ picked' = Append(picked, Candidate)
          /\ portfolio'[Len(portfolio')].shares =
                 Whole(remaining_budget) \div Whole(Price(Candidate))
          /\ FLess(portfolio'[Len(portfolio')].potential_return, FZero)]_vars

\* Every symbol analyze_stock could score has a positive price.
PositivePrices ==
    \A i \in DOMAIN analyses : analyses[i] # NoAnalysis => FLess(FZero, Price(i))

\* C24: for a budget above 0 and a universe of positive prices the two
\* results of get_budget_optimized_stocks agree: every symbol of a line of
\* the portfolio is the symbol of a record of the single-stock ranking, and
\* the ranking is empty exactly when the portfolio is.
C24_ResultsConsistent ==
    (OptimizeReturned /\ caller = "query" /\ FLess(FZero, budget) /\ PositivePrices) =>
        /\ \A k \in 1..Len(portfolio) :
               \E n \in 1..Len(single_stock) :
                   analyses[single_stock[n]].symbol = portfolio[k].symbol
        /\ single_stock = <<>> <=> portfolio = <<>>

\* C24 witness: get_budget_optimized_stocks has returned a ranking of two
\* symbols and a portfolio that holds one of them.
C24_Witness ==
    /\ pc = "done"
    /\ caller = "query"
    /\ PositivePrices
    /\ Len(single_stock) = 2
    /\ analyses[single_stock[1]].symbol # analyses[single_stock[2]].symbol
    /\ Len(portfolio) = 1

(* ------------------- the stock watch GUI (prediction_of_stock.py) ------- *)

\* Strings are sequences of characters.

\* Most root.after calls of update_table the model lets wait at once.
MaxPending == 3

DotNS == <<".", "N", "S">>

\* str.upper() on one character.
UpperChar(c) ==
    CASE c = "a" -> "A"
      [] c = "b" -> "B"
      [] c = "n" -> "N"
      [] c = "s" -> "S"
      [] OTHER -> c

\* s.upper()
Upper(s) == [i \in 1..Len(s) |-> UpperChar(s[i])]

\* s.replace('.NS', ''): every occurrence of the three characters ".NS",
\* found from the left, is taken out; other letter cases are not matched.
RECURSIVE ReplaceDotNS(_)
ReplaceDotNS(s) ==
    IF s = <<>> THEN <<>>
    ELSE IF Len(s) >= 3 /\ SubSeq(s, 1, 3) = DotNS THEN ReplaceDotNS(SubSeq(s, 4, Len(s)))
    ELSE <<Head(s)>> \o ReplaceDotNS(Tail(s))

\* Lines 71-72 and line 93: the symbol looked for in STOCKS.
FullSymbol(s) == Upper(ReplaceDotNS(s)) \o DotNS

\* What the user may have typed into the entry field.
Entries ==
    {<<"A">>, <<"a">>, <<"A", ".", "N", "S">>, <<"a", ".", "n", "s">>, <<"B">>}

\* list.remove(x): l without its first element equal to x.
RECURSIVE ListRemove(_, _)
ListRemove(l, x) ==
    IF l = <<>> THEN <<>>
    ELSE IF Head(l) = x THEN Tail(l)
    ELSE <<Head(l)>> \o ListRemove(Tail(l), x)

\* Line 54: the first column of the rows fetch_live_data returns when every
\* stock of the list has data.
Rows(l) == [i \in 1..Len(l) |-> ReplaceDotNS(l[i])]

\* The allocator is another program: it is not running while the GUI is.
AllocatorNotRunning ==
    /\ threads = <<>>
    /\ frames = <<>>
    /\ analyses = <<>>
    /\ budget = FZero
    /\ pc = "off"
    /\ caller = "none"
    /\ extra = <<>>
    /\ all_stocks = <<>>
    /\ single_stock = <<>>
    /\ stocks = <<>>
    /\ stocks_by_efficiency = <<>>
    /\ pos = 0
    /\ portfolio = <<>>
    /\ remaining_budget = FZero
    /\ picked = <<>>
    /\ response = "none"

allocator == <<threads, frames, analyses, budget, pc, caller, extra, all_stocks,
               single_stock, stocks, stocks_by_efficiency, pos, portfolio,
               remaining_budget, picked, response>>

\* Lines 15-18 and 193-247: the default list (one symbol stands for the
\* thirteen), the empty entry field, the checkbox off, and the first
\* update_table of line 247, which fills the table if the fetch gives data.
InitWatch ==
    /\ STOCKS = <<<<"A", ".", "N", "S">>>>
    /\ entry_remove_symbol = <<>>
    /\ auto_refresh_var = FALSE
    /\ scheduled = 0
    /\ table \in {<<>>, Rows(<<<<"A", ".", "N", "S">>>>)}
    /\ handler = "update_table"
    /\ AllocatorNotRunning
    /\ InventoryNotRunning

\* update_table, lines 102-129, run after the handler calling it has set
\* STOCKS' and auto_refresh_var', with n calls of root.after waiting: the
\* table is replaced if the fetch gives data and kept if it gives none, and
\* with the checkbox on one more call is scheduled.
UpdateTable(n) ==
    /\ auto_refresh_var' => n < MaxPending
    /\ \E fetched \in BOOLEAN :
           table' = IF fetched /\ STOCKS' # <<>> THEN Rows(STOCKS') ELSE table
    /\ scheduled' = IF auto_refresh_var' THEN n + 1 ELSE n

\* Line 137: root.after_cancel(update_table) is given the function and not
\* the identifier root.after returned.  Tcl looks for an after script equal
\* to the function's text, finds none and cancels nothing: the number of
\* waiting calls stays n.
AfterCancel(n) == n

\* The user types into the entry field.
TypeEntry ==
    /\ \E s \in Entries : entry_remove_symbol' = s
    /\ UNCHANGED <<STOCKS, auto_refresh_var, scheduled, table, handler, allocator, inventory>>

\* The Manual Refresh button, line 243.
ManualRefresh ==
    /\ handler' = "update_table"
    /\ UNCHANGED <<STOCKS, entry_remove_symbol, auto_refresh_var, allocator, inventory>>
    /\ UpdateTable(scheduled)

\* A call scheduled by root.after comes due.
TimerFires ==
    /\ scheduled > 0
    /\ handler' = "timer"
    /\ UNCHANGED <<STOCKS, entry_remove_symbol, auto_refresh_var, allocator, inventory>>
    /\ UpdateTable(scheduled - 1)

\* A click on the checkbox flips the variable and runs toggle_auto_refresh,
\* lines 132-137.
ToggleAutoRefresh ==
    /\ auto_refresh_var' = ~auto_refresh_var
    /\ handler' = "toggle_auto_refresh"
    /\ UNCHANGED <<STOCKS, entry_remove_symbol, allocator, inventory>>
    /\ IF auto_refresh_var'
       THEN UpdateTable(scheduled)
       ELSE /\ scheduled' = AfterCancel(scheduled)
            /\ UNCHANGED table

\* The Add button: add_stock(entry_remove_symbol.get()), lines 68-89.  The
\* history the ticker returns is the answer of an outside service: it has
\* data or it has none.
AddStock ==
    /\ handler' = "add_stock"
    /\ UNCHANGED <<entry_remove_symbol, auto_refresh_var, allocator, inventory>>
    /\ LET full_symbol == FullSymbol(entry_remove_symbol)
       IN  IF full_symbol \notin Range(STOCKS)
           THEN \E found \in BOOLEAN :
                    IF found
                    THEN /\ STOCKS' = Append(STOCKS, full_symbol)
                         /\ UpdateTable(scheduled)
                    ELSE UNCHANGED <<STOCKS, scheduled, table>>
           ELSE UNCHANGED <<STOCKS, scheduled, table>>

\* The Remove button: remove_stock, lines 92-99.
RemoveStock ==
    /\ handler' = "remove_stock"
    /\ UNCHANGED <<entry_remove_symbol, auto_refresh_var, allocator, inventory>>
    /\ LET stock_symbol == FullSymbol(entry_remove_symbol)
       IN  IF stock_symbol \in Range(STOCKS)
           THEN /\ STOCKS' = ListRemove(STOCKS, stock_symbol)
                /\ UpdateTable(scheduled)
           ELSE UNCHANGED <<STOCKS, scheduled, table>>

NextWatch ==
    \/ TypeEntry
    \/ ManualRefresh
    \/ TimerFires
    \/ ToggleAutoRefresh
    \/ AddStock
    \/ RemoveStock

SpecWatch == InitWatch /\ [][NextWatch]_vars

\* C25: switching auto-refresh off cancels the pending update: right after
\* toggle_auto_refresh has run with the checkbox off no call of update_table
\* is scheduled, a scheduled call only ever runs while the checkbox is on,
\* and at most one call is scheduled at any time.
C25_SwitchOffCancels ==
    /\ scheduled <= 1
    /\ handler = "timer" => auto_refresh_var
    /\ (handler = "toggle_auto_refresh" /\ ~auto_refresh_var) => scheduled = 0

\* The stock a string names, whatever its letter case and with or without
\* the .NS suffix.
StockNamed(s) ==
    LET u == Upper(s)
    IN  IF Len(u) >= 3 /\ SubSeq(u, Len(u) - 2, Len(u)) = DotNS
        THEN SubSeq(u, 1, Len(u) - 3)
        ELSE u

\* The stock the entry names is in STOCKS.
EntryPresent ==
    \E k \in 1..Len(STOCKS) : StockNamed(STOCKS[k]) = StockNamed(entry_remove_symbol)

\* The step is a run of the handler h on the entry as it stands.
Handled(h) ==
    /\ handler' = h
    /\ entry_remove_symbol' = entry_remove_symbol
    /\ entry_remove_symbol # <<>>

\* C29: STOCKS never holds a symbol twice; add_stock of a symbol already in
\* it, typed with or without the .NS suffix and in any letter case, leaves
\* STOCKS unchanged; remove_stock of a symbol not in it leaves STOCKS
\* unchanged.
C29_NoDuplicateStocks ==
    [][/\ \A i, j \in 1..Len(STOCKS') : STOCKS'[i] = STOCKS'[j] => i = j
       /\ (Handled("add_stock") /\ EntryPresent) => STOCKS' = STOCKS
       /\ (Handled("remove_stock") /\ ~EntryPresent) => STOCKS' = STOCKS]_vars

(* ------------------- the inventory app (Inventory_management.py) -------- *)

\* Most rows table Inventory is ever given, and most rows table Products is:
\* AUTOINCREMENT keys are never used again, so the counters are capped.
MaxItems == 2
MaxProducts == 2

\* The characters int() reads as decimal digits, and the characters
\* str.isdigit() accepts: these and digits such as the superscript two,
\* written "^2" here.
DecimalChars == {"0", "1", "2", "3", "4", "5", "6", "7", "8", "9"}
DigitChars == DecimalChars \cup {"^2"}

\* s.strip()
RECURSIVE Strip(_)
Strip(s) ==
    IF s = <<>> THEN <<>>
    ELSE IF Head(s) = " " THEN Strip(Tail(s))
    ELSE IF s[Len(s)] = " " THEN Strip(SubSeq(s, 1, Len(s) - 1))
    ELSE s

\* s.isdigit()
IsDigit(s) == s # <<>> /\ \A i \in 1..Len(s) : s[i] \in DigitChars

\* s.replace('.', '', 1)
RECURSIVE ReplaceFirstDot(_)
ReplaceFirstDot(s) ==
    IF s = <<>> THEN <<>>
    ELSE IF Head(s) = "." THEN Tail(s)
    ELSE <<Head(s)>> \o ReplaceFirstDot(Tail(s))

\* Line 145: the input is taken as valid.
ValidInput(name, quantity, price) ==
    /\ name # <<>>
    /\ IsDigit(quantity)
    /\ IsDigit(ReplaceFirstDot(price))

\* int(s) and float(s) raise ValueError on a digit that is not decimal.
ValueError(s) == \E i \in 1..Len(s) : s[i] \notin DecimalChars \cup {"."}

DigitValue(c) == CHOOSE d \in 0..9 : <<"0", "1", "2", "3", "4", "5", "6", "7", "8", "9">>[d + 1] = c

\* int(s) of a string of decimal digits.
RECURSIVE IntOf(_)
IntOf(s) ==
    IF s = <<>> THEN 0
    ELSE 10 * IntOf(SubSeq(s, 1, Len(s) - 1)) + DigitValue(s[Len(s)])

\* float(s) of a decimal string with at most one digit after the point,
\* counted in tenths: the REAL 2.5 is the number 25.
FloatOf(s) ==
    LET dot == IF \E i \in 1..Len(s) : s[i] = "."
               THEN CHOOSE i \in 1..Len(s) : s[i] = "."
               ELSE Len(s) + 1
    IN  10 * IntOf(SubSeq(s, 1, dot - 1))
        + (IF dot < Len(s) THEN DigitValue(s[dot + 1]) ELSE 0)

\* What the user may have typed into the three fields of the inventory tab.
ItemForms ==
    {[name |-> <<"b">>, quantity |-> <<"5">>, price |-> <<"2", ".", "5">>],
     [name |-> <<" ", "b">>, quantity |-> <<"7">>, price |-> <<"3">>],
     [name |-> <<"n">>, quantity |-> <<"5">>, price |-> <<"3">>],
     [name |-> <<" ">>, quantity |-> <<"x">>, price |-> <<"1", ".", "2", ".", "3">>],
     [name |-> <<"b">>, quantity |-> <<"^2">>, price |-> <<"3">>]}

\* What the user may type as the name of a product, and the values a
\* spinbox of the pop-up may hold.
ProductNames == {<<"p">>, <<"q", " ">>, <<" ">>}
RequiredQuantities == {0, 2}

\* The rows of a table in the order of the key k.
RECURSIVE OrderBy(_, _)
OrderBy(T, k) ==
    IF T = {} THEN <<>>
    ELSE LET first == CHOOSE r \in T : \A o \in T : r[k] <= o[k]
         IN  <<first>> \o OrderBy(T \ {first}, k)

\* Lines 209-219: SELECT * FROM Inventory ORDER BY item_id, each row behind
\* its serial number.
InventoryRows(inv) ==
    LET rows == OrderBy(inv, "item_id")
    IN  [i \in 1..Len(rows) |-> <<i, rows[i].item_id, rows[i].name, rows[i].quantity, rows[i].price>>]

Min(S) == CHOOSE x \in S : \A y \in S : x <= y

\* Lines 290-301: per product FLOOR(MIN(IFNULL(quantity / required, 0))) over
\* the two LEFT JOINs; a product without requirements has one row of NULLs.
Units(p, reqs, inv) ==
    LET mine == {r \in reqs : r.product_id = p.product_id}
    IN  IF mine = {} THEN 0
        ELSE Min({IF \E i \in inv : i.item_id = r.item_id
                  THEN (CHOOSE i \in inv : i.item_id = r.item_id).quantity \div r.required_quantity
                  ELSE 0 : r \in mine})

ProductRows(prods, reqs, inv) ==
    LET rows == OrderBy(prods, "product_id")
    IN  [i \in 1..Len(rows) |-> <<rows[i].product_id, rows[i].name, Units(rows[i], reqs, inv)>>]

NoRows == [Inventory |-> {}, Products |-> {}, ProductRequirements |-> {}]

\* Lines 6-14: a new database file: create_connection opens it and switches
\* foreign keys on, ensure_schema creates the three empty tables and
\* commits, the two tabs show two empty trees.
InitInventory ==
    /\ Inventory = {}
    /\ Products = {}
    /\ ProductRequirements = {}
    /\ sqlite_sequence = [Inventory |-> 0, Products |-> 0, ProductRequirements |-> 0]
    /\ committed = NoRows
    /\ item_name_var = <<>>
    /\ item_quantity_var = <<>>
    /\ item_price_var = <<>>
    /\ inventory_tree = <<>>
    /\ product_tree = <<>>
    /\ item_requirements = <<>>
    /\ popup = FALSE
    /\ selected_id = 0
    /\ existing_item = 0
    /\ messagebox = <<>>
    /\ command = "__init__"
    /\ AllocatorNotRunning
    /\ WatchNotRunning

others == <<allocator, watch>>

\* The lookup of line 152 finding nothing.
ExistingItem_None(name) == {}

\* The foreign key on item_id not enforced.
ReferencedItem_Unchecked(item_id) == FALSE

\* The foreign key on product_id without ON DELETE CASCADE taking rows away.
Cascade_Off(product_id) == ProductRequirements

\* Line 152: SELECT item_id FROM Inventory WHERE name = ?
ExistingItem(name) == {r \in Inventory : r.name = name}

\* Lines 26 and 60: PRAGMA foreign_keys = 1 and FOREIGN KEY(item_id)
\* REFERENCES Inventory(item_id): a row of Inventory that a row of
\* ProductRequirements names cannot be deleted.
ReferencedItem(item_id) == \E r \in ProductRequirements : r.item_id = item_id

\* Line 59: ON DELETE CASCADE: the rows of ProductRequirements left when the
\* product goes.
Cascade(product_id) == {r \in ProductRequirements : r.product_id # product_id}

\* self.conn.commit()
Commit == committed' = [Inventory |-> Inventory', Products |-> Products',
                        ProductRequirements |-> ProductRequirements']

\* add_or_update_item, lines 137-178, on what the user has typed into the
\* three fields.  Lines 170-172 empty the fields after a commit; the next
\* run of the callback reads what has been typed by then.
add_or_update_item ==
    \E typed \in ItemForms :
    LET name == Strip(typed.name)
        quantity == Strip(typed.quantity)
        price == Strip(typed.price)
        found == ExistingItem(name)
        unchanged == UNCHANGED <<Inventory, sqlite_sequence, committed, inventory_tree,
                                 product_tree>>
    IN  /\ command' = "add_or_update_item"
        /\ item_name_var' = typed.name
        /\ item_quantity_var' = typed.quantity
        /\ item_price_var' = typed.price
        /\ selected_id' = 0
        /\ UNCHANGED <<Products, ProductRequirements, item_requirements, popup, others>>
        /\ IF ~ValidInput(name, quantity, price)
           THEN /\ messagebox' = <<"Error">>
                /\ existing_item' = 0
                /\ unchanged
           ELSE /\ existing_item' = IF found = {} THEN 0 ELSE (CHOOSE r \in found : TRUE).item_id
                /\ IF ValueError(quantity) \/ ValueError(price)
                   THEN \* int() or float() raises, nothing catches it
                        /\ messagebox' = <<"ValueError">>
                        /\ unchanged
                   ELSE IF found # {}
                   THEN /\ Inventory' = {IF r.name = name
                                         THEN [r EXCEPT !.quantity = IntOf(quantity),
                                                        !.price = FloatOf(price)]
                                         ELSE r : r \in Inventory}
                        /\ UNCHANGED sqlite_sequence
                        /\ Commit
                        /\ messagebox' = <<>>
                        /\ inventory_tree' = InventoryRows(Inventory')
                        /\ product_tree' = ProductRows(Products, ProductRequirements, Inventory')
                   ELSE IF \E r \in Inventory : r.name = name
                   THEN \* UNIQUE constraint failed: Inventory.name
                        /\ messagebox' = <<"Integrity Error">>
                        /\ unchanged
                   ELSE /\ sqlite_sequence.Inventory < MaxItems
                        /\ Inventory' = Inventory \cup
                               {[item_id |-> sqlite_sequence.Inventory + 1, name |-> name,
                                 quantity |-> IntOf(quantity), price |-> FloatOf(price)]}
                        /\ sqlite_sequence' = [sqlite_sequence EXCEPT !.Inventory = @ + 1]
                        /\ Commit
                        /\ messagebox' = <<>>
                        /\ inventory_tree' = InventoryRows(Inventory')
                        /\ product_tree' = ProductRows(Products, ProductRequirements, Inventory')

\* delete_selected_item, lines 180-202, on one selected row of the tree (or
\* none) and with the answer to the question of line 192.
delete_selected_item ==
    /\ command' = "delete_selected_item"
    /\ UNCHANGED <<Products, ProductRequirements, sqlite_sequence, item_requirements,
                   popup, others>>
    /\ item_name_var' = <<>>
    /\ item_quantity_var' = <<>>
    /\ item_price_var' = <<>>
    /\ existing_item' = 0
    /\ \E selected \in 0..Len(inventory_tree), yes \in BOOLEAN :
           IF selected = 0
           THEN /\ messagebox' = <<"Error">>
                /\ selected_id' = 0
                /\ UNCHANGED <<Inventory, committed, inventory_tree, product_tree>>
           ELSE /\ selected_id' = inventory_tree[selected][2]
                /\ IF ~yes
                   THEN /\ messagebox' = <<"no">>
                        /\ UNCHANGED <<Inventory, committed, inventory_tree, product_tree>>
                   ELSE IF ReferencedItem(selected_id')
                   THEN \* FOREIGN KEY constraint failed
                        /\ messagebox' = <<"yes", "Database Error">>
                        /\ UNCHANGED <<Inventory, committed, inventory_tree, product_tree>>
                   ELSE /\ messagebox' = <<"yes">>
                        /\ Inventory' = {r \in Inventory : r.item_id # selected_id'}
                        /\ Commit
                        /\ inventory_tree' = InventoryRows(Inventory')
                        /\ product_tree' = ProductRows(Products, ProductRequirements, Inventory')

\* show_add_product_popup, lines 221-256: the pop-up keeps one spinbox per
\* row Inventory has when it opens.  One pop-up is followed: opening it
\* again stands for closing the old one.
show_add_product_popup ==
    /\ command' = "show_add_product_popup"
    /\ messagebox' = <<>>
    /\ popup' = TRUE
    /\ item_requirements' = LET rows == OrderBy(Inventory, "item_id")
                            IN  [i \in 1..Len(rows) |-> rows[i].item_id]
    /\ UNCHANGED <<Inventory, Products, ProductRequirements, sqlite_sequence, committed,
                   inventory_tree, product_tree, others>>
    /\ item_name_var' = <<>>
    /\ item_quantity_var' = <<>>
    /\ item_price_var' = <<>>
    /\ selected_id' = 0
    /\ existing_item' = 0

\* Lines 268-271: the loop over the spinboxes from the k-th on, req holding
\* their values.  An item of the pop-up that Inventory has lost fails the
\* foreign key: the statement is undone and the loop ends, the rows written
\* before it stay in the open transaction.
RECURSIVE InsertRequirements(_, _, _, _, _)
InsertRequirements(k, req, product_id, rows, seq) ==
    IF k > Len(item_requirements) THEN [rows |-> rows, seq |-> seq, error |-> FALSE]
    ELSE IF req[k] > 0
    THEN IF \E i \in Inventory : i.item_id = item_requirements[k]
         THEN InsertRequirements(k + 1, req, product_id,
                  rows \cup {[req_id |-> seq + 1, product_id |-> product_id,
                              item_id |-> item_requirements[k],
                              required_quantity |-> req[k]]},
                  seq + 1)
         ELSE [rows |-> rows, seq |-> seq, error |-> TRUE]
    ELSE InsertRequirements(k + 1, req, product_id, rows, seq)

\* add_product, lines 258-278: the button of the pop-up.
add_product ==
    /\ popup
    /\ command' = "add_product"
    /\ UNCHANGED <<Inventory, inventory_tree, item_requirements, others>>
    /\ item_name_var' = <<>>
    /\ item_quantity_var' = <<>>
    /\ item_price_var' = <<>>
    /\ selected_id' = 0
    /\ existing_item' = 0
    /\ \E typed \in ProductNames :
           LET name == Strip(typed)
               product_id == sqlite_sequence.Products + 1
           IN  IF name = <<>>
               THEN /\ messagebox' = <<"Error">>
                    /\ UNCHANGED <<Products, ProductRequirements, sqlite_sequence,
                                   committed, product_tree, popup>>
               ELSE IF \E p \in Products : p.name = name
               THEN \* UNIQUE constraint failed: Products.name
                    /\ messagebox' = <<"Error">>
                    /\ UNCHANGED <<Products, ProductRequirements, sqlite_sequence,
                                   committed, product_tree, popup>>
               ELSE
                /\ sqlite_sequence.Products < MaxProducts
                /\ \E req \in [1..Len(item_requirements) -> RequiredQuantities] :
                    LET done == InsertRequirements(1, req, product_id, ProductRequirements,
                                                   sqlite_sequence.ProductRequirements)
                    IN
                    /\ Products' = Products \cup {[product_id |-> product_id, name |-> name]}
                    /\ ProductRequirements' = done.rows
                    /\ sqlite_sequence' = [sqlite_sequence EXCEPT
                                               !.Products = product_id,
                                               !.ProductRequirements = done.seq]
                    /\ IF done.error
                       THEN \* IntegrityError: no commit, no rollback
                            /\ messagebox' = <<"Error">>
                            /\ UNCHANGED <<committed, product_tree, popup>>
                       ELSE /\ Commit
                            /\ messagebox' = <<>>
                            /\ popup' = FALSE
                            /\ product_tree' = ProductRows(Products', ProductRequirements',
                                                           Inventory)

\* delete_selected_product, lines 307-340, on one selected row of the tree
\* (or none) and with the answer to the question of line 321.
delete_selected_product ==
    /\ command' = "delete_selected_product"
    /\ UNCHANGED <<Inventory, sqlite_sequence, inventory_tree, item_requirements,
                   popup, others>>
    /\ item_name_var' = <<>>
    /\ item_quantity_var' = <<>>
    /\ item_price_var' = <<>>
    /\ existing_item' = 0
    /\ \E selected \in 0..Len(product_tree), yes \in BOOLEAN :
           IF selected = 0
           THEN /\ messagebox' = <<"Error">>
                /\ selected_id' = 0
                /\ UNCHANGED <<Products, ProductRequirements, committed, product_tree>>
           ELSE /\ selected_id' = product_tree[selected][1]
                /\ IF ~yes
                   THEN /\ messagebox' = <<"no">>
                        /\ UNCHANGED <<Products, ProductRequirements, committed, product_tree>>
                   ELSE /\ messagebox' = <<"yes">>
                        /\ Products' = {p \in Products : p.product_id # selected_id'}
                        /\ ProductRequirements' = Cascade(selected_id')
                        /\ Commit
                        /\ product_tree' = ProductRows(Products', ProductRequirements',
                                                       Inventory)

NextInventory ==
    \/ add_or_update_item
    \/ delete_selected_item
    \/ show_add_product_popup
    \/ add_product
    \/ delete_selected_product

SpecInventory == InitInventory /\ [][NextInventory]_vars

\* The step is add_or_update_item run on fields that line 145 takes as valid
\* and that int() and float() can read.
ItemSubmitted ==
    /\ command' = "add_or_update_item"
    /\ ValidInput(Strip(item_name_var'), Strip(item_quantity_var'), Strip(item_price_var'))
    /\ ~ValueError(Strip(item_quantity_var'))
    /\ ~ValueError(Strip(item_price_var'))

\* C26: no two rows of Inventory have the same name; add_or_update_item
\* with the name of an existing item replaces that item's quantity and
\* price and keeps its item_id and the number of rows, and with a new name
\* adds exactly one row.
C26_UniqueNames ==
    [][/\ \A r1, r2 \in Inventory' : r1.name = r2.name => r1 = r2
       /\ ItemSubmitted =>
              LET name == Strip(item_name_var')
                  quantity == IntOf(Strip(item_quantity_var'))
                  price == FloatOf(Strip(item_price_var'))
              IN  IF \E r \in Inventory : r.name = name
                  THEN /\ Cardinality(Inventory') = Cardinality(Inventory)
                       /\ \A r \in Inventory :
                              IF r.name = name
                              THEN [item_id |-> r.item_id, name |-> name,
                                    quantity |-> quantity, price |-> price] \in Inventory'
                              ELSE r \in Inventory'
                  ELSE /\ Cardinality(Inventory') = Cardinality(Inventory) + 1
                       /\ Inventory \subseteq Inventory'
                       /\ \E r \in Inventory' \ Inventory :
                              /\ r.name = name
                              /\ r.quantity = quantity
                              /\ r.price = price]_vars

\* add_or_update_item has just replaced the quantity and price of one of two
\* items.
C26_Witness ==
    /\ command = "add_or_update_item"
    /\ messagebox = <<>>
    /\ existing_item # 0
    /\ Cardinality(Inventory) = 2
    /\ \E r \in Inventory : r.item_id = existing_item /\ r.quantity = 7

\* C27: a confirmed delete_selected_product removes the product and every
\* row of ProductRequirements of that product, and leaves the rows of
\* Inventory, the other products and their requirements as they were.
C27_ProductDeleted ==
    [][(command' = "delete_selected_product" /\ messagebox' = <<"yes">>) =>
           /\ \E p \in Products : p.product_id = selected_id'
           /\ Products' = {p \in Products : p.product_id # selected_id'}
           /\ ProductRequirements' =
                  {r \in ProductRequirements : r.product_id # selected_id'}
           /\ Inventory' = Inventory]_vars

\* One of two products has just been deleted, rows of ProductRequirements
\* went with it, and the other product still has its own.
C27_Witness ==
    /\ command = "delete_selected_product"
    /\ messagebox = <<"yes">>
    /\ sqlite_sequence.Products = 2
    /\ Cardinality(Products) = 1
    /\ ProductRequirements # {}
    /\ Cardinality(ProductRequirements) < sqlite_sequence.ProductRequirements

\* C28: every row of ProductRequirements names a row of Products and a row
\* of Inventory; a confirmed delete_selected_item of an item some product
\* requires ends in a database error and leaves the three tables as they
\* were.
C28_ReferencesKept ==
    [][/\ \A r \in ProductRequirements' :
              /\ \E p \in Products' : p.product_id = r.product_id
              /\ \E i \in Inventory' : i.item_id = r.item_id
       /\ (/\ command' = "delete_selected_item"
           /\ messagebox' # <<>>
           /\ Head(messagebox') = "yes"
           /\ \E r \in ProductRequirements : r.item_id = selected_id')
              => /\ messagebox' = <<"yes", "Database Error">>
                 /\ UNCHANGED <<Inventory, Products, ProductRequirements>>]_vars

\* The deletion of a required item has just been refused.
C28_Witness ==
    /\ command = "delete_selected_item"
    /\ messagebox = <<"yes", "Database Error">>
    /\ \E r \in ProductRequirements : r.item_id = selected_id
    /\ \E i \in Inventory : i.item_id = selected_id

====
